---- MODULE Spec2Model ----
(***************************************************************************)
(* Multi-Asset Portfolio Tracker: the consolidation engine                 *)
(* (backend/services/portfolio_service.py) and the refresh coordinator     *)
(* (backend/services/portfolio_refresh_service.py), and the screener      *)
(* (backend/services/screening_service.py).                                *)
(*                                                                         *)
(* Ten specifications share this module:                                   *)
(*   SpecConsolidate  _deduplicate_securities applied to a bounded list    *)
(*   SpecCoordinator  start/stop of the scheduler and its worker threads   *)
(*   SpecRefresh      the batch refresh and a concurrent manual refresh    *)
(*   SpecPortfolio    consolidate_portfolio called twice on raw records    *)
(*   SpecTick         the market-hours tick and the batches it starts      *)
(*   SpecStatus       get_refresh_status beside start/stop                 *)
(*   SpecLive         SpecCoordinator under fair scheduling                *)
(*   SpecRace         start_auto_refresh called by two threads at once     *)
(*   SpecScreen       screen_stocks on a bounded catalog                   *)
(*   SpecPrice        one _get_current_price call, source by source        *)
(* Each one leaves the variables of the others at their initial value.     *)
(***************************************************************************)
EXTENDS Integers, Sequences, FiniteSets, TLC

VARIABLES
    \* ---- consolidation --------------------------------------------------
    input,            \* the list handed to _deduplicate_securities
    output,           \* the list it returned
    phase,            \* "input" before the call, "done" after it
    \* ---- coordinator ----------------------------------------------------
    is_running,       \* PortfolioRefreshService.is_running
    jobs,             \* schedule.jobs, the default scheduler's job list
    scheduler_thread, \* PortfolioRefreshService.scheduler_thread (0: None)
    thr,              \* thread id -> position of that thread in _run_scheduler
    todo,             \* thread id -> jobs run_pending still has to run
    callerPc,         \* position of the caller of start/stop
    reply,            \* what the last finished start/stop call returned
    \* ---- refresh --------------------------------------------------------
    store,            \* the 'portfolios' collection: user id -> document
    batch,            \* the frame of refresh_all_portfolios
    batches,          \* refresh_all_portfolios calls begun so far
    batchReturn,      \* what the last refresh_all_portfolios call returned
    last_system_refresh, \* system_metrics 'last_portfolio_refresh'
    manual,           \* the frame of manual_refresh_portfolio
    manuals,          \* manual_refresh_portfolio calls begun so far
    manualReturn,     \* what the last manual_refresh_portfolio call returned
    refresh_logs,     \* the 'refresh_logs' collection
    \* ---- consolidate_portfolio -----------------------------------------
    raw,              \* its arguments: fyers_data, cas_data, manual_data
    all_securities,   \* its local list 'securities' of converted objects
    results,          \* what its calls returned, in call order
    now,              \* the clock datetime.now() reads
    \* ---- calls that report -----------------------------------------------
    tick,             \* the last refresh_market_hours_portfolios call
    status,           \* what the last get_refresh_status call returned
    \* ---- screening ------------------------------------------------------
    catalog,          \* the records _execute_screening evaluates
    filters,          \* the request dict handed to screen_stocks
    screening,        \* the frame of screen_stocks: its locals and its result
    \* ---- price lookup ---------------------------------------------------
    providers,        \* the FYERS session and what each price source answers
    lookup,           \* the frame of _get_current_price
    \* ---- concurrent start_auto_refresh calls ----------------------------
    starters          \* the line each concurrent start_auto_refresh call is at

consVars  == <<input, output, phase>>
coordVars == <<is_running, jobs, scheduler_thread, thr, todo, callerPc, reply>>
refVars   == <<store, batch, batches, batchReturn, last_system_refresh,
               manual, manuals, manualReturn, refresh_logs>>
portVars  == <<raw, all_securities, results, now>>
callVars  == <<tick, status>>
screenVars == <<catalog, filters, screening>>
priceVars == <<providers, lookup>>
raceVars  == <<starters>>
svcVars   == <<screenVars, priceVars, raceVars>>
vars      == <<input, output, phase,
               is_running, jobs, scheduler_thread, thr, todo, callerPc, reply,
               store, batch, batches, batchReturn, last_system_refresh,
               manual, manuals, manualReturn, refresh_logs,
               raw, all_securities, results, now, tick, status,
               catalog, filters, screening, providers, lookup,
               starters>>

(***************************************************************************)
(* Bounds of the model.                                                    *)
(***************************************************************************)
MaxLen     == 3     \* longest list of securities consolidated
MaxTime    == 2     \* last_updated ranges over 1..MaxTime
MaxThreads == 2     \* scheduler threads ever created
MaxRuns    == 2     \* refresh_all_portfolios and manual_refresh_portfolio calls
MaxRaw     == 2     \* raw records handed to one consolidate_portfolio call
MaxCatalog == 2     \* records in a catalog that is filtered
MaxSorted  == 3     \* records in a catalog that is sorted and paged

(***************************************************************************)
(* Security (portfolio_service.py:10-24), reduced to the fields that       *)
(* deduplication reads.                                                    *)
(***************************************************************************)
Symbols  == {"abc", "ABC"}
Isins    == {"", "X"}            \* "" stands for None / empty: both are falsy
Sources  == {"FYERS", "CAS", "MANUAL"}
Times    == 1..MaxTime

Security == [symbol : Symbols, isin : Isins, source : Sources,
             last_updated : Times]

\* Sequences over S of length at most n.
SeqsUpTo(S, n) == UNION {[1..k -> S] : k \in 0..n}

\* key = security.isin if security.isin else security.symbol
Key(security) == IF security.isin # "" THEN security.isin ELSE security.symbol

\* priority = {'FYERS': 3, 'CAS': 2, 'MANUAL': 1}; priority.get(source, 0)
priority(source) ==
    CASE source = "FYERS"  -> 3
      [] source = "CAS"    -> 2
      [] source = "MANUAL" -> 1
      [] OTHER             -> 0

\* A merge that adds up the holdings of the two records.
MergeAdditive(existing, new) ==
    [existing EXCEPT !.quantity     = existing.quantity + new.quantity,
                     !.market_value = existing.market_value + new.market_value,
                     !.pnl          = existing.pnl + new.pnl]

\* _merge_securities: the second test is not guarded by "same priority".
_merge_securities(existing, new) ==
    IF priority(new.source) > priority(existing.source) THEN new
    ELSE IF new.last_updated > existing.last_updated THEN new
    ELSE existing

\* One iteration of the loop of _deduplicate_securities. grouped is the
\* dict, kept as the list of its values in insertion order (a dict value
\* always has the key it is stored under).
GroupedPut(grouped, security) ==
    IF \E i \in DOMAIN grouped : Key(grouped[i]) = Key(security)
    THEN LET i == CHOOSE j \in DOMAIN grouped : Key(grouped[j]) = Key(security)
         IN  [grouped EXCEPT ![i] = _merge_securities(grouped[i], security)]
    ELSE Append(grouped, security)

RECURSIVE DedupLoop(_, _)
DedupLoop(grouped, securities) ==
    IF securities = <<>> THEN grouped
    ELSE DedupLoop(GroupedPut(grouped, Head(securities)), Tail(securities))

\* A deduplication that returns list(grouped.values()) newest key first.
DedupReversed(securities) ==
    LET out == DedupLoop(<<>>, securities)
    IN  [i \in DOMAIN out |-> out[Len(out) + 1 - i]]

\* _deduplicate_securities: list(grouped.values())
_deduplicate_securities(securities) == DedupLoop(<<>>, securities)

(***************************************************************************)
(* Refresh coordinator: the state after PortfolioRefreshService.__init__   *)
(* (is_running False, no thread) with an empty default scheduler.          *)
(***************************************************************************)
Threads == 1..MaxThreads

CoordIdle ==
    /\ is_running = FALSE
    /\ jobs = <<>>
    /\ scheduler_thread = 0
    /\ thr = [t \in Threads |-> "unborn"]
    /\ todo = [t \in Threads |-> <<>>]
    /\ callerPc = "idle"
    /\ reply = "none"

ConsIdle ==
    /\ input = <<>>
    /\ output = <<>>
    /\ phase = "idle"

\* consolidate_portfolio not called.
PortIdle ==
    /\ raw = <<>>
    /\ all_securities = <<>>
    /\ results = <<>>
    /\ now = 0

\* No tick and no status request yet.
CallIdle ==
    /\ tick = [outcome |-> "none", current_time |-> 0, batch |-> 0]
    /\ status = [outcome |-> "none"]

\* No screening requested.
ScreenIdle ==
    /\ catalog = <<>>
    /\ filters = <<>>
    /\ screening = [pc |-> "idle"]

\* No price looked up.
PriceIdle ==
    /\ providers = <<>>
    /\ lookup = [pc |-> "idle"]

\* The services other than consolidation and refresh are idle.
SvcIdle == ScreenIdle /\ PriceIdle /\ starters = <<>>

\* Nothing stored, no refresh called.
RefreshIdle ==
    /\ store = <<>>
    /\ batch = [pc |-> "idle"]
    /\ batches = 0
    /\ batchReturn = "none"
    /\ last_system_refresh = 0
    /\ manual = [pc |-> "idle"]
    /\ manuals = 0
    /\ manualReturn = "none"
    /\ refresh_logs = <<>>

(***************************************************************************)
(* SpecConsolidate                                                         *)
(***************************************************************************)
InitConsolidate ==
    /\ input \in SeqsUpTo(Security, MaxLen)
    /\ output = <<>>
    /\ phase = "input"
    /\ CoordIdle
    /\ RefreshIdle
    /\ PortIdle
    /\ CallIdle
    /\ SvcIdle

Deduplicate ==
    /\ phase = "input"
    /\ output' = _deduplicate_securities(input)
    /\ phase' = "done"
    /\ UNCHANGED <<input, coordVars, refVars, portVars, callVars, svcVars>>

NextConsolidate == Deduplicate

SpecConsolidate == InitConsolidate /\ [][NextConsolidate]_vars

(***************************************************************************)
(* Claims about consolidation (checked under SpecConsolidate).             *)
(***************************************************************************)
\* The identity key as the specification words it: the isin if non-empty,
\* otherwise the upper-cased symbol.
Upper(s) == IF s = "abc" THEN "ABC" ELSE s

IdentityKey(security) ==
    IF security.isin # "" THEN security.isin ELSE Upper(security.symbol)

\* The lists obtained from S by reordering it.
Reorderings(S) ==
    {[k \in DOMAIN S |-> S[f[k]]] : f \in Permutations(DOMAIN S)}

SetOf(S) == {S[i] : i \in DOMAIN S}

\* No two members of one group tie on both source priority and last_updated.
NoTies(S) ==
    \A i, j \in DOMAIN S :
        (i # j /\ IdentityKey(S[i]) = IdentityKey(S[j]))
            => ~(/\ priority(S[i].source) = priority(S[j].source)
                 /\ S[i].last_updated = S[j].last_updated)

\* C1: the consolidated record of a key comes from the highest-priority
\* source present in its group, whatever the members' last_updated and
\* their order: no input record outranks the output record that carries its
\* key. Stated for the records the code itself stores under one key, which
\* the claim's identity-key groups contain, so the claim implies it.
C1_PriorityOverRecency ==
    phase = "done" =>
        \A i \in DOMAIN input : \A o \in DOMAIN output :
            Key(output[o]) = Key(input[i])
                => priority(output[o].source) >= priority(input[i].source)

\* C2: in every output no two securities share an identity key (isin, else
\* the upper-cased symbol), and the output is no longer than the input.
C2_UniqueIdentityKeys ==
    phase = "done" =>
        /\ \A a, b \in DOMAIN output :
               a # b => IdentityKey(output[a]) # IdentityKey(output[b])
        /\ Len(output) <= Len(input)

\* C3: for a list without ties on (priority, last_updated) inside a group,
\* every reordering of the list consolidates to the same set of securities.
C3_OrderIndependent ==
    (phase = "done" /\ NoTies(input)) =>
        \A P \in Reorderings(input) :
            SetOf(_deduplicate_securities(P)) = SetOf(output)

\* The positions of the members of the identity-key group k in list S.
GroupOf(S, k) == {i \in DOMAIN S : IdentityKey(S[i]) = k}

\* The member of group G of S with the latest last_updated, the first seen
\* among those that tie.
LatestFirstSeen(S, G) ==
    CHOOSE i \in G :
        \A j \in G :
            \/ S[j].last_updated < S[i].last_updated
            \/ S[j].last_updated = S[i].last_updated /\ i <= j

\* C12: when all members of an identity-key group have the same source
\* priority, the consolidated record of the group is the member with the
\* latest last_updated, and among members that tie on last_updated too the
\* one seen first in the input.
C12_RecencyTieBreak ==
    phase = "done" =>
        \A m \in DOMAIN input :
            LET k == IdentityKey(input[m])
                G == GroupOf(input, k)
            IN  (\A i, j \in G :
                     priority(input[i].source) = priority(input[j].source))
                    => {output[o] : o \in GroupOf(output, k)}
                           = {input[LatestFirstSeen(input, G)]}

(***************************************************************************)
(* SpecPortfolio: consolidate_portfolio (portfolio_service.py:57-103)      *)
(* called twice on the same raw records. A raw record is a dict; a key is  *)
(* absent, or holds a value float() accepts, or one it rejects (the field  *)
(* 'name' is carried like 'symbol' and read by nothing, it is left out).   *)
(***************************************************************************)
Absent == [kind |-> "absent"]                 \* the key is not in the dict
Bad    == [kind |-> "bad"]                    \* 'n/a', None: float() raises
Num(n) == [kind |-> "num", v |-> n]
Str(x) == [kind |-> "str", v |-> x]

NumericFields ==
    {"quantity", "avg_price", "current_price", "market_value", "pnl",
     "pnl_percentage"}

\* A raw record with every field present and consistent.
Complete ==
    [symbol         |-> Str("A"),
     isin           |-> Str("X"),
     quantity       |-> Num(2),
     avg_price      |-> Num(1),
     current_price  |-> Num(3),
     market_value   |-> Num(6),
     pnl            |-> Num(4),
     pnl_percentage |-> Num(200),
     security_type  |-> Str("MUTUAL_FUND")]

\* The raw records consolidated: Complete, and Complete with one field
\* absent, unparsable or negative, or with neither symbol nor isin.
RawRecords ==
    {Complete}
    \cup {[Complete EXCEPT ![f] = Absent] : f \in DOMAIN Complete}
    \cup {[Complete EXCEPT ![f] = Bad] : f \in NumericFields \ {"quantity"}}
    \cup {[Complete EXCEPT !.quantity = Num(0 - 2)]}
    \cup {[Complete EXCEPT !.symbol = Absent, !.isin = Absent]}

\* item.get(field, default)
Get(item, field, default) ==
    IF item[field].kind = "absent" THEN default ELSE item[field]

\* float(item.get(field, 0)) raises (ValueError, TypeError).
FloatRaises(item, field) == Get(item, field, Num(0)).kind # "num"

\* float(item.get(field, 0)) when it does not raise.
Float(item, field) == Get(item, field, Num(0)).v

\* _convert_fyers_to_security / _convert_cas_to_security /
\* _convert_manual_to_security return None: one of the float() calls of
\* lines 111-116 (131-136, 151-156) raised.
ConvertFails(item) == \E f \in NumericFields : FloatRaises(item, f)

\* The Security the three converters build (they differ in source only);
\* last_updated is not passed, __post_init__ sets it to datetime.now().
\* isin "" stands for None.
_convert_to_security(item, source, stamp) ==
    [symbol         |-> Get(item, "symbol", Str("")).v,
     quantity       |-> Float(item, "quantity"),
     avg_price      |-> Float(item, "avg_price"),
     current_price  |-> Float(item, "current_price"),
     market_value   |-> Float(item, "market_value"),
     pnl            |-> Float(item, "pnl"),
     pnl_percentage |-> Float(item, "pnl_percentage"),
     security_type  |-> Get(item, "security_type", Str("STOCK")).v,
     isin           |-> Get(item, "isin", Str("")).v,
     source         |-> source,
     last_updated   |-> stamp]

\* The items in the order lines 67-82 convert them, each with the source
\* its converter sets.
TaggedItems(data) ==
    [i \in DOMAIN data.fyers_data |->
        [item |-> data.fyers_data[i], source |-> "FYERS"]]
    \o [i \in DOMAIN data.cas_data |->
        [item |-> data.cas_data[i], source |-> "CAS"]]
    \o [i \in DOMAIN data.manual_data |->
        [item |-> data.manual_data[i], source |-> "MANUAL"]]

\* Lines 64-82: the list 'securities'. The clock reads t before the first
\* conversion and advances by step at every Security that is created
\* (step 0: the conversions fall into one reading of the clock).
RECURSIVE ConvertAll(_, _, _)
ConvertAll(items, t, step) ==
    IF items = <<>> THEN <<>>
    ELSE IF ConvertFails(Head(items).item)
         THEN ConvertAll(Tail(items), t, step)
         ELSE <<_convert_to_security(Head(items).item, Head(items).source,
                                     t + step)>>
              \o ConvertAll(Tail(items), t + step, step)

\* sum(...) of a list of numbers.
RECURSIVE SumSeq(_)
SumSeq(N) == IF N = <<>> THEN 0 ELSE Head(N) + SumSeq(Tail(N))

\* A float that is a quotient, kept as the fraction it is the value of.
Ratio(n, d) == [num |-> n, den |-> d]

\* _calculate_portfolio_summary (lines 203-230).
_calculate_portfolio_summary(consolidated) ==
    LET total_value ==
            SumSeq([i \in DOMAIN consolidated |-> consolidated[i].market_value])
        total_pnl ==
            SumSeq([i \in DOMAIN consolidated |-> consolidated[i].pnl])
        total_investment ==
            SumSeq([i \in DOMAIN consolidated |->
                       consolidated[i].quantity * consolidated[i].avg_price])
        types == {consolidated[i].security_type : i \in DOMAIN consolidated}
    IN  [total_value      |-> total_value,
         total_pnl        |-> total_pnl,
         total_investment |-> total_investment,
         overall_pnl_percentage |->
             IF total_investment > 0
             THEN Ratio(total_pnl * 100, total_investment)
             ELSE Ratio(0, 1),
         security_count   |-> Len(consolidated),
         by_type |->
             [ty \in types |->
                 LET OfType(s) == s.security_type = ty
                     members   == SelectSeq(consolidated, OfType)
                 IN  [count |-> Len(members),
                      value |-> SumSeq([i \in DOMAIN members |->
                                           members[i].market_value]),
                      pnl   |-> SumSeq([i \in DOMAIN members |->
                                           members[i].pnl])]]]

\* The dict consolidate_portfolio returns (lines 90-99) for the list
\* 'securities' of line 64, read at clock reading t.
ConsolidationResult(converted, t) ==
    LET consolidated == _deduplicate_securities(converted)
        FromSource(src) ==
            Cardinality({i \in DOMAIN consolidated :
                            consolidated[i].source = src})
    IN  [securities   |-> consolidated,
         summary      |-> _calculate_portfolio_summary(consolidated),
         last_updated |-> t,
         sources      |-> [fyers  |-> FromSource("FYERS"),
                           cas    |-> FromSource("CAS"),
                           manual |-> FromSource("MANUAL")]]

\* The lengths of the three raw lists: at most MaxRaw records in all.
RawLengths ==
    {n \in (0..MaxRaw) \X (0..MaxRaw) \X (0..MaxRaw) :
        n[1] + n[2] + n[3] <= MaxRaw}

InitPortfolio ==
    /\ \E n \in RawLengths :
          \E f \in [1..n[1] -> RawRecords],
             c \in [1..n[2] -> RawRecords],
             m \in [1..n[3] -> RawRecords] :
             raw = [fyers_data |-> f, cas_data |-> c, manual_data |-> m]
    /\ all_securities = <<>>
    /\ results = <<>>
    /\ now = 0
    /\ ConsIdle
    /\ CoordIdle
    /\ RefreshIdle
    /\ CallIdle
    /\ SvcIdle

\* consolidate_portfolio(fyers_data, cas_data, manual_data), called a first
\* and a second time with the same arguments.
consolidate_portfolio ==
    /\ Len(results) < Len(<<"first", "second">>)
    /\ \E step \in {0, 1} :
          LET converted == ConvertAll(TaggedItems(raw), now, step)
              t         == now + step * (Len(converted) + 1)
          IN  /\ all_securities' = converted
              /\ results' = Append(results, ConsolidationResult(converted, t))
              /\ now' = t
    /\ UNCHANGED <<raw, consVars, coordVars, refVars, callVars, svcVars>>

NextPortfolio == consolidate_portfolio

SpecPortfolio == InitPortfolio /\ [][NextPortfolio]_vars

(***************************************************************************)
(* Claims about consolidate_portfolio (checked under SpecPortfolio).       *)
(***************************************************************************)
\* The dict the latest call returned.
LastResult == results[Len(results)]

\* C13: merging is never additive: every consolidated record equals, in
\* every field, one member of its identity-key group among the converted
\* securities, and every group has a consolidated record.
C13_NeverAdditive ==
    results # <<>> =>
        /\ \A o \in DOMAIN LastResult.securities :
              \E i \in DOMAIN all_securities :
                  /\ all_securities[i] = LastResult.securities[o]
                  /\ IdentityKey(all_securities[i])
                         = IdentityKey(LastResult.securities[o])
        /\ \A i \in DOMAIN all_securities :
              \E o \in DOMAIN LastResult.securities :
                  IdentityKey(LastResult.securities[o])
                      = IdentityKey(all_securities[i])

\* A call has merged two members of one group that differ in quantity.
C13_Witness ==
    /\ results # <<>>
    /\ Len(LastResult.securities) < Len(all_securities)
    /\ \E i, j \in DOMAIN all_securities :
          /\ IdentityKey(all_securities[i]) = IdentityKey(all_securities[j])
          /\ all_securities[i].quantity # all_securities[j].quantity

\* C14: the summary of a consolidation output has total_value, total_pnl
\* and total_investment equal to the sums of market_value, pnl and
\* quantity x avg_price over the output securities, and
\* overall_pnl_percentage equal to total_pnl / total_investment x 100 when
\* total_investment is non-zero and to 0 when it is 0.
C14_SummaryCorrect ==
    results # <<>> =>
        LET out     == LastResult.securities
            summary == LastResult.summary
        IN  /\ summary.total_value
                   = SumSeq([i \in DOMAIN out |-> out[i].market_value])
            /\ summary.total_pnl = SumSeq([i \in DOMAIN out |-> out[i].pnl])
            /\ summary.total_investment
                   = SumSeq([i \in DOMAIN out |->
                                out[i].quantity * out[i].avg_price])
            /\ LET pct == summary.overall_pnl_percentage
               IN  IF summary.total_investment # 0
                   THEN pct.num * summary.total_investment
                            = summary.total_pnl * 100 * pct.den
                   ELSE pct.num = 0

MissingField(item) ==
    \/ item.symbol.kind = "absent" /\ item.isin.kind = "absent"
    \/ item.quantity.kind = "absent"

\* A list of securities with the creation stamps blanked.
Unstamped(S) == [i \in DOMAIN S |-> [S[i] EXCEPT !.last_updated = 0]]

\* C16: a raw record with neither symbol nor isin, or without quantity, is
\* rejected and its siblings are not: when no field of the batch is
\* unparsable, the securities handed to deduplication are, in order, those
\* of exactly the records that have a symbol or an isin, and a quantity.
C16_MissingFieldRejected ==
    LET items       == TaggedItems(raw)
        Parsable(x) == ~ConvertFails(x.item)
        Accepted(x) == ~MissingField(x.item)
    IN  (results # <<>> /\ \A i \in DOMAIN items : Parsable(items[i]))
            => Unstamped(all_securities)
                   = Unstamped(ConvertAll(SelectSeq(items, Accepted), 0, 0))

\* The value of a numeric field that defaults to 0 when absent or
\* unparsable.
Defaulted(item, field) ==
    IF item[field].kind = "num" THEN item[field].v ELSE 0

\* The Security of a raw record that has a symbol or an isin, and a
\* quantity, with every other field defaulted.
Normalized(x) ==
    [symbol         |-> Get(x.item, "symbol", Str("")).v,
     quantity       |-> Defaulted(x.item, "quantity"),
     avg_price      |-> Defaulted(x.item, "avg_price"),
     current_price  |-> Defaulted(x.item, "current_price"),
     market_value   |-> Defaulted(x.item, "market_value"),
     pnl            |-> Defaulted(x.item, "pnl"),
     pnl_percentage |-> Defaulted(x.item, "pnl_percentage"),
     security_type  |-> Get(x.item, "security_type", Str("STOCK")).v,
     isin           |-> Get(x.item, "isin", Str("")).v,
     source         |-> x.source,
     last_updated   |-> 0]

\* C17: when every record of the batch has a symbol or an isin, and a
\* quantity, each record is kept: the securities handed to deduplication
\* are, in order, the records with every absent or unparsable numeric field
\* set to 0 and an absent security_type set to STOCK.
C17_DefaultsNotDropped ==
    LET items == TaggedItems(raw)
    IN  (results # <<>> /\ \A i \in DOMAIN items : ~MissingField(items[i].item))
            => Unstamped(all_securities)
                   = [i \in DOMAIN items |-> Normalized(items[i])]

\* C19: after consolidation every security satisfies market_value =
\* quantity x current_price and pnl = market_value - quantity x avg_price.
\* Stated for batches in which every record has a symbol or an isin, and a
\* quantity, and no unparsable field.
C19_ValuationInvariant ==
    LET items == TaggedItems(raw)
    IN  (/\ results # <<>>
         /\ \A i \in DOMAIN items :
               ~MissingField(items[i].item) /\ ~ConvertFails(items[i].item))
            => \A o \in DOMAIN LastResult.securities :
                  LET security == LastResult.securities[o]
                  IN  /\ security.market_value
                             = security.quantity * security.current_price
                      /\ security.pnl
                             = security.market_value
                                   - security.quantity * security.avg_price

(***************************************************************************)
(* SpecCoordinator: start_auto_refresh / stop_auto_refresh called one      *)
(* after the other by a caller, and the scheduler threads they leave       *)
(* behind. A thread is "unborn" (not created yet), at "check" (the loop    *)
(* test of _run_scheduler), "pending" (inside schedule.run_pending,        *)
(* between jobs), in a "job", or "dead" (_run_scheduler returned).         *)
(***************************************************************************)
\* The three registrations of start_auto_refresh, in the order of lines
\* 30, 33 and 36: refresh_all_portfolios every refresh_interval seconds,
\* refresh_market_hours_portfolios every minute, generate_daily_summary
\* every day at 15:30.
ScheduledJobs == <<"periodic", "market", "daily">>

\* Subsequences of a job list: the jobs run_pending finds due, in order.
RECURSIVE SubSeqs(_)
SubSeqs(S) ==
    IF S = <<>> THEN {<<>>}
    ELSE LET rest == SubSeqs(Tail(S))
         IN  rest \cup {<<Head(S)>> \o r : r \in rest}

Alive(t) == thr[t] \notin {"unborn", "dead"}      \* Thread.is_alive()

\* The thread start_auto_refresh creates: the lowest id not used yet.
FreshThread(t) ==
    /\ thr[t] = "unborn"
    /\ \A s \in Threads : s < t => thr[s] # "unborn"

\* start_auto_refresh without its is_running test.
StartUnguarded ==
    /\ callerPc = "idle"
    /\ \E t \in Threads :
          /\ FreshThread(t)
          /\ thr' = [thr EXCEPT ![t] = "check"]
          /\ scheduler_thread' = t
    /\ jobs' = jobs \o ScheduledJobs
    /\ is_running' = TRUE
    /\ reply' = "started"
    /\ UNCHANGED <<todo, callerPc, consVars, refVars, portVars, callVars, svcVars>>

\* start_auto_refresh (lines 22-49).
start_auto_refresh ==
    /\ callerPc = "idle"
    /\ IF is_running
       THEN /\ reply' = "already running"
            /\ UNCHANGED <<is_running, jobs, scheduler_thread, thr>>
       ELSE /\ jobs' = jobs \o ScheduledJobs
            /\ is_running' = TRUE
            /\ \E t \in Threads :
                  /\ FreshThread(t)
                  /\ thr' = [thr EXCEPT ![t] = "check"]
                  /\ scheduler_thread' = t
            /\ reply' = "started"
    /\ UNCHANGED <<todo, callerPc, consVars, refVars, portVars, callVars, svcVars>>

\* stop_auto_refresh up to its join (lines 51-58): the flag is cleared, the
\* schedule is cleared, and the call returns at once unless the thread of
\* scheduler_thread is alive.
stop_auto_refresh ==
    /\ callerPc = "idle"
    /\ is_running' = FALSE
    /\ jobs' = <<>>
    /\ IF scheduler_thread # 0 /\ Alive(scheduler_thread)
       THEN callerPc' = "join" /\ UNCHANGED reply
       ELSE callerPc' = "idle" /\ reply' = "stopped"
    /\ UNCHANGED <<scheduler_thread, thr, todo, consVars, refVars,
                   portVars, callVars, svcVars>>

\* join(timeout=5) returns because the thread has ended (lines 58-61).
JoinThreadEnded ==
    /\ callerPc = "join"
    /\ ~Alive(scheduler_thread)
    /\ callerPc' = "idle"
    /\ reply' = "stopped"
    /\ UNCHANGED <<is_running, jobs, scheduler_thread, thr, todo, consVars, refVars,
                   portVars, callVars, svcVars>>

\* join(timeout=5) returns because the 5 seconds are over (lines 58-61).
\* Only a thread inside a job is taken to outlast them: a job makes
\* network calls per holding of every user, the loop itself sleeps 1 s.
JoinTimedOut ==
    /\ callerPc = "join"
    /\ thr[scheduler_thread] = "job"
    /\ callerPc' = "idle"
    /\ reply' = "stopped"
    /\ UNCHANGED <<is_running, jobs, scheduler_thread, thr, todo, consVars, refVars,
                   portVars, callVars, svcVars>>

\* _run_scheduler, line 318 and the start of run_pending at line 319: the
\* loop ends when is_running is false, otherwise run_pending takes the jobs
\* that are due (any of the registered ones, as time decides).
WorkerCheck(t) ==
    /\ thr[t] = "check"
    /\ IF is_running
       THEN \E due \in SubSeqs(jobs) :
               /\ thr' = [thr EXCEPT ![t] = "pending"]
               /\ todo' = [todo EXCEPT ![t] = due]
       ELSE /\ thr' = [thr EXCEPT ![t] = "dead"]
            /\ UNCHANGED todo
    /\ UNCHANGED <<is_running, jobs, scheduler_thread, callerPc, reply, consVars, refVars,
                   portVars, callVars, svcVars>>

\* run_pending calls the next due job.
JobStart(t) ==
    /\ thr[t] = "pending"
    /\ todo[t] # <<>>
    /\ thr' = [thr EXCEPT ![t] = "job"]
    /\ UNCHANGED <<is_running, jobs, scheduler_thread, todo, callerPc, reply, consVars, refVars,
                   portVars, callVars, svcVars>>

\* The job that ends a thread: an exception of the job leaves run_pending
\* and the loop of _run_scheduler through the handler of line 321.
JobEndRaises(t) ==
    /\ thr[t] = "job"
    /\ thr' = [thr EXCEPT ![t] = "dead"]
    /\ todo' = [todo EXCEPT ![t] = <<>>]
    /\ UNCHANGED <<is_running, jobs, scheduler_thread, callerPc, reply,
                   consVars, refVars, portVars, callVars, svcVars>>

\* The job returns to run_pending.
JobEnd(t) ==
    /\ thr[t] = "job"
    /\ thr' = [thr EXCEPT ![t] = "pending"]
    /\ todo' = [todo EXCEPT ![t] = Tail(todo[t])]
    /\ UNCHANGED <<is_running, jobs, scheduler_thread, callerPc, reply, consVars, refVars,
                   portVars, callVars, svcVars>>

\* run_pending returns, time.sleep(1), back to the loop test (lines 319-320).
PendingDone(t) ==
    /\ thr[t] = "pending"
    /\ todo[t] = <<>>
    /\ thr' = [thr EXCEPT ![t] = "check"]
    /\ UNCHANGED <<is_running, jobs, scheduler_thread, todo, callerPc, reply, consVars, refVars,
                   portVars, callVars, svcVars>>

InitCoordinator ==
    CoordIdle /\ ConsIdle /\ RefreshIdle /\ PortIdle /\ CallIdle /\ SvcIdle

NextCoordinator ==
    \/ start_auto_refresh
    \/ stop_auto_refresh
    \/ JoinThreadEnded
    \/ JoinTimedOut
    \/ \E t \in Threads : WorkerCheck(t)
    \/ \E t \in Threads : JobStart(t)
    \/ \E t \in Threads : JobEnd(t)
    \/ \E t \in Threads : PendingDone(t)

SpecCoordinator == InitCoordinator /\ [][NextCoordinator]_vars

(***************************************************************************)
(* Claims about the coordinator (checked under SpecCoordinator).           *)
(***************************************************************************)
\* stop() has returned and no start() followed it.
StoppedAndReturned == ~is_running /\ callerPc = "idle"

\* C4: after stop() has returned no scheduled job is executing, however
\* long a job in flight at the time of the call takes.
C4_QuiescentAfterStop ==
    StoppedAndReturned => \A t \in Threads : thr[t] # "job"

\* C9: at every moment at most one scheduler thread is alive.
C9_SingleWorker ==
    Cardinality({t \in Threads : Alive(t)}) <= 1

Count(S, x) == Cardinality({i \in DOMAIN S : S[i] = x})

\* C10: the coordinator starts Stopped; when Running exactly one periodic
\* tick, one market-hours tick and one daily job are registered, and none
\* when Stopped; start() while Running answers "already running" and
\* changes neither the flag, the schedule nor the threads; stop() while
\* Stopped changes neither.
C10_Registered ==
    /\ reply = "none" => (~is_running /\ \A t \in Threads : thr[t] = "unborn")
    /\ IF is_running
       THEN \A j \in {"periodic", "market", "daily"} : Count(jobs, j) = 1
       ELSE jobs = <<>>

C10_StartStopIdempotent ==
    /\ []C10_Registered
    /\ [][(start_auto_refresh /\ is_running) =>
             /\ reply' = "already running"
             /\ UNCHANGED <<is_running, jobs, scheduler_thread, thr>>]_vars
    /\ [][(stop_auto_refresh /\ ~is_running) =>
             UNCHANGED <<is_running, jobs, scheduler_thread, thr>>]_vars

\* start() was called while Running and has answered.
C10_Witness == is_running /\ reply = "already running" /\ callerPc = "idle"

\* The thread begins a job that refreshes: refresh_all_portfolios or
\* refresh_market_hours_portfolios.
BeginsRefresh(t) ==
    /\ thr[t] = "pending"
    /\ thr'[t] = "job"
    /\ Head(todo[t]) \in {"periodic", "market"}

\* C27: stop() does not interrupt a job in flight, which leaves the job
\* only by returning to run_pending, and once stop() has cleared the flag
\* no thread begins another refresh.
C27_StopLetsBatchFinish ==
    [][\A t \in Threads :
          /\ thr[t] = "job" => thr'[t] \in {"job", "pending"}
          /\ BeginsRefresh(t) => is_running]_vars

(***************************************************************************)
(* SpecLive: SpecCoordinator with the scheduling the code relies on. Each  *)
(* scheduler thread keeps taking steps (the loop of _run_scheduler sleeps  *)
(* one second a round and every job returns), and time goes on: the        *)
(* periodic job registered at line 30 falls due every refresh_interval     *)
(* seconds and stays due until a run_pending runs it.                      *)
(***************************************************************************)
\* run_pending finds the periodic job due.
PeriodicDue(t) ==
    /\ WorkerCheck(t)
    /\ \E i \in DOMAIN todo'[t] : todo'[t][i] = "periodic"

Fairness ==
    /\ \A t \in Threads : /\ WF_vars(WorkerCheck(t))
                          /\ WF_vars(JobStart(t))
                          /\ WF_vars(JobEnd(t))
                          /\ WF_vars(PendingDone(t))
    /\ SF_vars(\E t \in Threads : PeriodicDue(t))

SpecLive == InitCoordinator /\ [][NextCoordinator]_vars /\ Fairness

\* A scheduler thread is executing refresh_all_portfolios as the periodic
\* job.
PeriodicBatchRuns ==
    \E t \in Threads : thr[t] = "job" /\ Head(todo[t]) = "periodic"

Starters == Threads

InitRace ==
    /\ starters = [c \in Starters |-> "test"]
    /\ CoordIdle
    /\ ConsIdle
    /\ RefreshIdle
    /\ PortIdle
    /\ CallIdle
    /\ ScreenIdle
    /\ PriceIdle

\* Lines 25-27: the test of is_running, and the return when it is set.
StartTest(c) ==
    /\ starters[c] = "test"
    /\ starters' = [starters EXCEPT
                       ![c] = IF is_running THEN "done" ELSE "periodic"]
    /\ UNCHANGED <<coordVars, consVars, refVars, portVars, callVars,
                   screenVars, priceVars>>

\* Lines 30, 33 and 36: one schedule.every(...).do(...).
StartRegister(c) ==
    /\ starters[c] \in {"periodic", "market", "daily"}
    /\ jobs' = Append(jobs, starters[c])
    /\ starters' = [starters EXCEPT
                       ![c] = CASE @ = "periodic" -> "market"
                                [] @ = "market"   -> "daily"
                                [] @ = "daily"    -> "flag"]
    /\ UNCHANGED <<is_running, scheduler_thread, thr, todo, callerPc, reply,
                   consVars, refVars, portVars, callVars, screenVars,
                   priceVars>>

\* Line 38: self.is_running = True.
StartFlag(c) ==
    /\ starters[c] = "flag"
    /\ is_running' = TRUE
    /\ starters' = [starters EXCEPT ![c] = "thread"]
    /\ UNCHANGED <<jobs, scheduler_thread, thr, todo, callerPc, reply,
                   consVars, refVars, portVars, callVars, screenVars,
                   priceVars>>

\* Lines 41-45: the scheduler thread is created and started.
StartThread(c) ==
    /\ starters[c] = "thread"
    /\ \E t \in Threads :
          /\ FreshThread(t)
          /\ thr' = [thr EXCEPT ![t] = "check"]
          /\ scheduler_thread' = t
    /\ reply' = "started"
    /\ starters' = [starters EXCEPT ![c] = "done"]
    /\ UNCHANGED <<is_running, jobs, todo, callerPc, consVars, refVars,
                   portVars, callVars, screenVars, priceVars>>

NextRace ==
    \/ \E c \in Starters : StartTest(c)
    \/ \E c \in Starters : StartRegister(c)
    \/ \E c \in Starters : StartFlag(c)
    \/ \E c \in Starters : StartThread(c)
    \/ \E t \in Threads : WorkerCheck(t)
    \/ \E t \in Threads : JobStart(t)
    \/ \E t \in Threads : JobEnd(t)
    \/ \E t \in Threads : PendingDone(t)

SpecRace == InitRace /\ [][NextRace]_vars

\* C30: when start() calls racing on a stopped coordinator have all
\* returned, the coordinator is running with one scheduler thread and one
\* registration of each of the three schedules, and at no moment are two
\* executions of the periodic job due to one tick.
C30_RacingStartsOnce ==
    /\ (\A c \in Starters : starters[c] = "done") =>
          /\ is_running
          /\ Cardinality({t \in Threads : Alive(t)}) = 1
          /\ \A j \in {"periodic", "market", "daily"} : Count(jobs, j) = 1
    /\ \A t \in Threads : Count(todo[t], "periodic") <= 1
    /\ Cardinality({t \in Threads :
                       thr[t] = "job" /\ Head(todo[t]) = "periodic"}) <= 1

(***************************************************************************)
(* SpecRefresh: refresh_all_portfolios (one call of the scheduler thread)  *)
(* and manual_refresh_portfolio (a request thread) running against the     *)
(* same 'portfolios' collection. Each refresh of one user is two steps,    *)
(* the find_one that loads the document and the rest of the call up to     *)
(* update_one; what lies between touches only the loaded copy.             *)
(***************************************************************************)
Users      == <<"u1", "u2">>     \* the order find() enumerates them in
UserIds    == {Users[i] : i \in DOMAIN Users}
Quantities == {0, 2}             \* holding['quantity']
AvgPrices  == {0, 1}             \* holding['avg_price']
StoredPrices == {1}              \* holding['current_price'] before any refresh
FeedPrices == {2}                \* prices _get_current_price can return
NoPrice    == 0                  \* _get_current_price returned None (or 0)
InitialStamp == <<"initial", 0>>

\* pnl_percentage as line 202 computes it (the quotient is exact for the
\* quantities and prices above).
PnlPercentage(total_pnl, quantity, avg_price) ==
    IF avg_price > 0 THEN (total_pnl * 100) \div (quantity * avg_price) ELSE 0

\* A stored holding whose valuation fields agree with its price.
StoredHolding(symbol, quantity, avg_price, current_price) ==
    [symbol         |-> symbol,
     quantity       |-> quantity,
     avg_price      |-> avg_price,
     current_price  |-> current_price,
     current_value  |-> quantity * current_price,
     total_pnl      |-> quantity * current_price - quantity * avg_price,
     pnl_percentage |-> IF quantity > 0
                        THEN PnlPercentage(quantity * current_price
                                             - quantity * avg_price,
                                           quantity, avg_price)
                        ELSE 0,
     last_updated   |-> InitialStamp]

RECURSIVE SumOf(_, _)
SumOf(S, field) ==
    IF S = <<>> THEN 0 ELSE Head(S)[field] + SumOf(Tail(S), field)

\* A stored portfolio document. wellformed is false for a document whose
\* 'holdings' is not a list of dicts (null, a string, ...).
StoredPortfolio(holdings, wellformed) ==
    [wellformed     |-> wellformed,
     holdings       |-> holdings,
     total_value    |-> SumOf(holdings, "current_value"),
     total_pnl      |-> SumOf(holdings, "total_pnl"),
     last_refreshed |-> InitialStamp,
     refresh_type   |-> "none"]

\* The holdings lists a stored portfolio starts with: a first holding of
\* every kind and a second one with a positive quantity and avg_price.
InitialHoldings ==
    {<<StoredHolding("S1", k[1], k[2], k[3]), StoredHolding("S2", 2, 1, 1)>> :
     k \in Quantities \X AvgPrices \X StoredPrices}

\* Line 202 divides by quantity * avg_price whenever avg_price > 0.
UpdateRaises(holding, current_price) ==
    /\ current_price # NoPrice
    /\ holding.avg_price > 0
    /\ holding.quantity * holding.avg_price = 0

\* An update that also moves the cost basis to the new price.
UpdateRebased(holding, current_price, stamp) ==
    IF current_price = NoPrice THEN holding
    ELSE [holding EXCEPT !.current_price = current_price,
                         !.avg_price     = current_price,
                         !.current_value = holding.quantity * current_price,
                         !.total_pnl     = 0,
                         !.last_updated  = stamp]

\* The body of the loop over holdings (lines 193-219) for one holding: the
\* dict as it is appended to updated_holdings. Lines 199-201 have already
\* assigned when line 202 raises, and the except branch appends the dict as
\* it then is.
UpdateHolding(holding, current_price, stamp) ==
    IF current_price = NoPrice THEN holding
    ELSE LET value == holding.quantity * current_price
             pnl   == value - holding.quantity * holding.avg_price
             h3    == [holding EXCEPT !.current_price = current_price,
                                      !.current_value = value,
                                      !.total_pnl     = pnl]
         IN  IF UpdateRaises(holding, current_price) THEN h3
             ELSE [h3 EXCEPT !.pnl_percentage =
                                 PnlPercentage(pnl, holding.quantity,
                                               holding.avg_price),
                             !.last_updated = stamp]

\* _refresh_portfolio_prices up to the call of _update_portfolio (lines
\* 185-231): the document to store and the result returned after storing.
\* A malformed 'holdings' raises out of the loop statement into the handler
\* of line 241.
_refresh_portfolio_prices(portfolio, prices, stamp, is_manual) ==
    IF ~portfolio.wellformed
    THEN [reached_write |-> FALSE,
          result |-> [error |-> "Failed to refresh prices"]]
    ELSE LET updated_holdings ==
                 [i \in DOMAIN portfolio.holdings |->
                     UpdateHolding(portfolio.holdings[i], prices[i], stamp)]
         IN  [reached_write |-> TRUE,
              updated_portfolio |->
                  [wellformed     |-> TRUE,
                   holdings       |-> updated_holdings,
                   total_value    |-> SumOf(updated_holdings, "current_value"),
                   total_pnl      |-> SumOf(updated_holdings, "total_pnl"),
                   last_refreshed |-> stamp,
                   refresh_type   |-> IF is_manual THEN "manual"
                                      ELSE "automatic"],
              result |-> [success |-> TRUE,
                          holdings_updated |-> Len(updated_holdings)]]

\* _update_portfolio (lines 343-353): update_one, its exception swallowed.
_update_portfolio(collection, user_id, portfolio, db_up) ==
    IF db_up THEN [collection EXCEPT ![user_id] = portfolio] ELSE collection

\* The prices one refresh obtains, one per holding.
PriceVectors(portfolio) ==
    [DOMAIN portfolio.holdings -> FeedPrices \cup {NoPrice}]

InitRefresh ==
    /\ \E holdings \in InitialHoldings, bad \in SUBSET UserIds :
          store = [u \in UserIds |->
                      IF u \in bad THEN StoredPortfolio(<<>>, FALSE)
                      ELSE StoredPortfolio(holdings, TRUE)]
    /\ batch = [pc |-> "idle"]
    /\ batches = 0
    /\ batchReturn = "none"
    /\ last_system_refresh = 0
    /\ manual = [pc |-> "idle"]
    /\ manuals = 0
    /\ manualReturn = "none"
    /\ refresh_logs = <<>>
    /\ ConsIdle
    /\ CoordIdle
    /\ PortIdle
    /\ CallIdle
    /\ SvcIdle

\* refresh_all_portfolios, lines 91-102: enumerate the users (an exception
\* in _get_all_users_with_portfolios gives []) and set up refresh_results.
StartBatch ==
    /\ batch.pc \in {"idle", "done"}
    /\ batches + manuals < MaxRuns
    /\ batches' = batches + 1
    /\ \E users \in {Users, <<>>} :
          batch' = [pc |-> "loop", users |-> users, i |-> 1,
                    refresh_results |-> [total_users |-> Len(users),
                                         successful  |-> 0,
                                         failed      |-> 0,
                                         errors      |-> <<>>],
                    outcomes |-> <<>>]
    /\ UNCHANGED <<store, batchReturn, last_system_refresh, manual,
                   manuals, manualReturn, refresh_logs, consVars, coordVars,
                   portVars, status, svcVars>>

\* refresh_all_portfolios called as the periodic job.
BatchBegin == StartBatch /\ UNCHANGED tick

\* Line 106: _get_user_portfolio. With the document found the loop goes on
\* to line 108; with None (no document, or the exception swallowed at line
\* 329) line 107 skips the user.
BatchLoad ==
    /\ batch.pc = "loop"
    /\ batch.i <= Len(batch.users)
    /\ \E found \in BOOLEAN :
          IF found
          THEN batch' = [pc |-> "loaded", users |-> batch.users,
                         i |-> batch.i,
                         refresh_results |-> batch.refresh_results,
                         outcomes |-> batch.outcomes,
                         portfolio |-> store[batch.users[batch.i]]]
          ELSE batch' = [batch EXCEPT !.i = @ + 1,
                                      !.outcomes = Append(@, "none")]
    /\ UNCHANGED <<store, batches, batchReturn, last_system_refresh,
                   manual, manuals, manualReturn, refresh_logs,
                   consVars, coordVars, portVars, callVars, svcVars>>

\* Lines 109-116: the tally of one result.
Tally(refresh_results, user_id, result) ==
    IF "success" \in DOMAIN result /\ result.success
    THEN [refresh_results EXCEPT !.successful = @ + 1]
    ELSE [refresh_results EXCEPT
             !.failed = @ + 1,
             !.errors = Append(@, [user_id |-> user_id,
                                   error   |-> result.error])]

\* Lines 117-123: the tally of an exception.
TallyException(refresh_results, user_id) ==
    [refresh_results EXCEPT
        !.failed = @ + 1,
        !.errors = Append(@, [user_id |-> user_id, error |-> "exception"])]

\* The tally of an exception, with the remaining users given up.
BatchRaisedAbort ==
    /\ batch.pc = "loaded"
    /\ batch' = [pc |-> "loop", users |-> batch.users,
                 i |-> Len(batch.users) + 1,
                 refresh_results |->
                     TallyException(batch.refresh_results,
                                    batch.users[batch.i]),
                 outcomes |-> Append(batch.outcomes, "raised")]
    /\ UNCHANGED <<store, batches, batchReturn, last_system_refresh,
                   manual, manuals, manualReturn, refresh_logs,
                   consVars, coordVars, portVars, callVars, svcVars>>

\* Line 108 with lines 109-116: _refresh_portfolio_prices(manual=False) on
\* the loaded document and the tally of its result.
BatchRefresh ==
    /\ batch.pc = "loaded"
    /\ LET user_id == batch.users[batch.i]
           stamp   == <<"automatic", batches>>
       IN  \E prices \in PriceVectors(batch.portfolio), db_up \in BOOLEAN :
             LET run == _refresh_portfolio_prices(batch.portfolio, prices,
                                                  stamp, FALSE)
             IN  /\ store' = IF run.reached_write
                             THEN _update_portfolio(store, user_id,
                                                    run.updated_portfolio, db_up)
                             ELSE store
                 /\ batch' = [pc |-> "loop", users |-> batch.users,
                              i |-> batch.i + 1,
                              refresh_results |->
                                  Tally(batch.refresh_results, user_id,
                                        run.result),
                              outcomes |->
                                  Append(batch.outcomes,
                                         IF "success" \in DOMAIN run.result
                                         THEN "ok" ELSE "error")]
    /\ UNCHANGED <<batches, batchReturn, last_system_refresh, manual,
                   manuals, manualReturn, refresh_logs, consVars, coordVars,
                   portVars, callVars, svcVars>>

\* Lines 117-123: an exception escapes lines 106-116 (none of the callees
\* lets one through in normal operation; the handler is there for any that
\* does, a MemoryError for one). It is tallied and the loop goes on.
BatchRaised ==
    /\ batch.pc = "loaded"
    /\ batch' = [pc |-> "loop", users |-> batch.users, i |-> batch.i + 1,
                 refresh_results |->
                     TallyException(batch.refresh_results,
                                    batch.users[batch.i]),
                 outcomes |-> Append(batch.outcomes, "raised")]
    /\ UNCHANGED <<store, batches, batchReturn, last_system_refresh,
                   manual, manuals, manualReturn, refresh_logs,
                   consVars, coordVars, portVars, callVars, svcVars>>

\* Lines 125-129: _update_system_refresh_timestamp (taken to succeed; its
\* failure is swallowed at line 380 and changes nothing) and the return of
\* refresh_results.
BatchEnd ==
    /\ batch.pc = "loop"
    /\ batch.i > Len(batch.users)
    /\ last_system_refresh' = batches
    /\ batch' = [batch EXCEPT !.pc = "done"]
    /\ batchReturn' = batch.refresh_results
    /\ UNCHANGED <<store, batches, manual, manuals, manualReturn,
                   refresh_logs, consVars, coordVars, portVars, callVars, svcVars>>

\* manual_refresh_portfolio, lines 69-75: _get_user_portfolio, and the
\* error return when it gave None.
ManualLoad ==
    /\ manual.pc = "idle"
    /\ batches + manuals < MaxRuns
    /\ manuals' = manuals + 1
    /\ \E user_id \in UserIds, found \in BOOLEAN :
          IF found
          THEN /\ manual' = [pc |-> "loaded", user_id |-> user_id,
                             portfolio |-> store[user_id]]
               /\ UNCHANGED manualReturn
          ELSE /\ manual' = [pc |-> "idle"]
               /\ manualReturn' = [error |-> "No portfolio found for user"]
    /\ UNCHANGED <<store, batch, batches, batchReturn,
                   last_system_refresh, refresh_logs, consVars, coordVars,
                   portVars, callVars, svcVars>>

\* Lines 77-83: _refresh_portfolio_prices(manual=True), then
\* _update_refresh_timestamp (insert_one into refresh_logs with status
\* 'success', taken to succeed; its failure is swallowed at line 365), then
\* the return of the refresh result.
ManualRefresh ==
    /\ manual.pc = "loaded"
    /\ LET user_id == manual.user_id
           stamp   == <<"manual", manuals>>
       IN  \E prices \in PriceVectors(manual.portfolio), db_up \in BOOLEAN :
             LET run == _refresh_portfolio_prices(manual.portfolio, prices,
                                                  stamp, TRUE)
             IN  /\ store' = IF run.reached_write
                             THEN _update_portfolio(store, user_id,
                                                    run.updated_portfolio, db_up)
                             ELSE store
                 /\ refresh_logs' =
                        Append(refresh_logs,
                               [user_id |-> user_id,
                                refresh_type |-> "manual",
                                timestamp |-> stamp,
                                status |-> "success"])
                 /\ manualReturn' = run.result
    /\ manual' = [pc |-> "idle"]
    /\ UNCHANGED <<batch, batches, batchReturn, last_system_refresh,
                   manuals, consVars, coordVars, portVars, callVars, svcVars>>

NextRefresh ==
    \/ BatchBegin
    \/ BatchLoad
    \/ BatchRefresh
    \/ BatchRaised
    \/ BatchEnd
    \/ ManualLoad
    \/ ManualRefresh

SpecRefresh == InitRefresh /\ [][NextRefresh]_vars

(***************************************************************************)
(* Claims about refreshing (checked under SpecRefresh).                    *)
(***************************************************************************)
\* The step is the second half of manual_refresh_portfolio (lines 77-83).
ManualStep == manual.pc = "loaded" /\ manual'.pc = "idle"

\* The step is the second half of the batch's refresh of one user (line 108
\* with its tally, or the handler of line 117).
BatchStep == batch.pc = "loaded" /\ batch'.pc = "loop"

\* The _refresh_portfolio_prices execution a ManualStep or BatchStep ends:
\* its user, the document it loaded, its timestamp and its manual flag.
StepRun ==
    IF ManualStep
    THEN [user_id |-> manual.user_id, read |-> manual.portfolio,
          stamp |-> <<"manual", manuals>>, is_manual |-> TRUE]
    ELSE [user_id |-> batch.users[batch.i], read |-> batch.portfolio,
          stamp |-> <<"automatic", batches>>, is_manual |-> FALSE]

\* The step stores the document of the execution it ends.
StepWrites ==
    /\ ManualStep \/ BatchStep
    /\ store'[StepRun.user_id] # store[StepRun.user_id]

\* The step reports the execution it ends as successful: in the value
\* manual_refresh_portfolio returns, or in the batch's tally.
StepReportsSuccess ==
    \/ ManualStep /\ "success" \in DOMAIN manualReturn'
    \/ /\ BatchStep
       /\ batch'.refresh_results.successful =
              batch.refresh_results.successful + 1

\* C5: refreshes of one user never interleave: the document a refresh
\* stores is the one the same refresh, with the same prices, leaves when it
\* starts from the document it overwrites, so that the stored Portfolio is
\* always the result of running the refreshes one after the other.
C5_Serializable ==
    [][StepWrites =>
          \E prices \in PriceVectors(StepRun.read) :
             /\ store'[StepRun.user_id] =
                    _refresh_portfolio_prices(StepRun.read, prices,
                                              StepRun.stamp,
                                              StepRun.is_manual).updated_portfolio
             /\ store'[StepRun.user_id] =
                    _refresh_portfolio_prices(store[StepRun.user_id], prices,
                                              StepRun.stamp,
                                              StepRun.is_manual).updated_portfolio
      ]_vars

\* The update of a holding does not go through: no price, or an exception
\* while updating.
UpdateFailed(holding, current_price) ==
    \/ current_price = NoPrice
    \/ UpdateRaises(holding, current_price)

\* C6: in the Portfolio a refresh stores, a holding whose price could not be
\* obtained or whose update failed has every field as it was loaded, the
\* other holdings carry the new price and the timestamp of the refresh, and
\* the user is reported successful.
C6_FailedHoldingUnchanged ==
    [][StepWrites =>
          /\ StepReportsSuccess
          /\ \E prices \in PriceVectors(StepRun.read) :
                \A i \in DOMAIN StepRun.read.holdings :
                   LET before == StepRun.read.holdings[i]
                       after  == store'[StepRun.user_id].holdings[i]
                   IN  IF UpdateFailed(before, prices[i])
                       THEN after = before
                       ELSE /\ after.current_price = prices[i]
                            /\ after.last_updated = StepRun.stamp
      ]_vars

\* C7: a refresh of one user is reported successful (to the caller of
\* manual_refresh_portfolio, or in the batch's tally) only if its Portfolio
\* Store write succeeded, that is only if the step has stored its document.
C7_SuccessOnlyIfStored ==
    [][StepReportsSuccess =>
          store'[StepRun.user_id].last_refreshed = StepRun.stamp]_vars

\* The step is the return of a manual_refresh_portfolio call: after the
\* refresh, or at once when no portfolio was found.
ManualReturns ==
    /\ manual'.pc = "idle"
    /\ manual.pc = "loaded" \/ manuals' = manuals + 1

\* C18: the refresh log is append-only, and every manual_refresh_portfolio
\* call that returns has appended exactly one entry, of type manual, for
\* its user, whose status is success exactly when the value returned to the
\* caller is a success.
C18_ManualLogged ==
    [][/\ Len(refresh_logs') >= Len(refresh_logs)
       /\ SubSeq(refresh_logs', 1, Len(refresh_logs)) = refresh_logs
       /\ ManualReturns =>
             /\ Len(refresh_logs') = Len(refresh_logs) + 1
             /\ LET entry == refresh_logs'[Len(refresh_logs')]
                IN  /\ entry.refresh_type = "manual"
                    /\ ManualStep => entry.user_id = manual.user_id
                    /\ (entry.status = "success")
                           <=> ("success" \in DOMAIN manualReturn')
      ]_vars

\* A holding with its price-derived fields blanked.
Unpriced(holding) ==
    [holding EXCEPT !.current_price  = 0,
                    !.current_value  = 0,
                    !.total_pnl      = 0,
                    !.pnl_percentage = 0,
                    !.last_updated   = 0]

\* C25: the Portfolio a refresh stores holds the holdings it loaded, and the
\* holdings stored before it, in the same order and number, each equal to
\* the loaded one in every field that is not derived from the price.
C25_PriceFieldsOnly ==
    [][StepWrites =>
          LET loaded == StepRun.read.holdings
              old    == store[StepRun.user_id].holdings
              new    == store'[StepRun.user_id].holdings
          IN  /\ Len(new) = Len(loaded)
              /\ Len(new) = Len(old)
              /\ \A i \in DOMAIN new :
                    /\ Unpriced(new[i]) = Unpriced(loaded[i])
                    /\ Unpriced(new[i]) = Unpriced(old[i])
      ]_vars

\* A refresh has stored a Portfolio in which the price of the first holding
\* was fetched and the price of the second was not.
C25_Witness ==
    \E u \in UserIds :
        /\ store[u].wellformed
        /\ store[u].last_refreshed # InitialStamp
        /\ store[u].holdings[1].current_price \in FeedPrices
        /\ store[u].holdings[2].last_updated = InitialStamp

\* The place of a user in the enumeration of the batch.
Place(user_id) ==
    CHOOSE i \in DOMAIN batch.users : batch.users[i] = user_id

\* C29: in the result refresh_all_portfolios returns, successful + failed =
\* total_users and errors holds one entry per failed user, in the order of
\* the enumeration, also when the portfolio of an enumerated user is not
\* found when its turn comes.
C29_TallyComplete ==
    batch.pc = "done" =>
        /\ batchReturn.successful + batchReturn.failed
               = batchReturn.total_users
        /\ Len(batchReturn.errors) = batchReturn.failed
        /\ \A i, j \in DOMAIN batchReturn.errors :
              i < j => Place(batchReturn.errors[i].user_id)
                           < Place(batchReturn.errors[j].user_id)

HM(hours, minutes) == hours * 3600 + minutes * 60

\* datetime.strptime('09:15', '%H:%M').time() and ('15:30', ...).
market_start == HM(9, 15)
market_end   == HM(15, 30)

\* What datetime.now().time() reads at a tick.
ClockTimes ==
    {0, market_start - 1, market_start, HM(10, 0), market_end,
     market_end + 1, HM(20, 0)}

\* A test that only looks at the closing time.
BeforeClose(current_time) == current_time <= market_end

\* Line 143: market_start <= current_time <= market_end
InMarketHours(current_time) ==
    market_start <= current_time /\ current_time <= market_end

refresh_market_hours_portfolios ==
    /\ batch.pc \in {"idle", "done"}
    /\ \E current_time \in ClockTimes :
          IF InMarketHours(current_time)
          THEN /\ StartBatch
               /\ tick' = [outcome |-> "refresh",
                           current_time |-> current_time,
                           batch |-> batches']
          ELSE /\ tick' = [outcome |-> "skipped",
                           current_time |-> current_time,
                           batch |-> 0]
               /\ UNCHANGED <<refVars, consVars, coordVars, portVars, status, svcVars>>

NextTick ==
    \/ refresh_market_hours_portfolios
    \/ BatchLoad
    \/ BatchRefresh
    \/ BatchRaised
    \/ BatchEnd

SpecTick == InitRefresh /\ [][NextTick]_vars

(***************************************************************************)
(* Claims about the market-hours tick (checked under SpecTick).            *)
(***************************************************************************)
\* The trading window 09:15-15:30, ends included.
InsideTradingWindow(t) == HM(9, 15) <= t /\ t <= HM(15, 30)

\* C11: a tick inside the trading window starts a batch refresh and a tick
\* outside it returns 'skipped', leaving the Portfolio Store, the batch
\* frame and the logs as they were; no batch starts otherwise.
C11_MarketHoursGate ==
    [][/\ tick' # tick =>
             IF InsideTradingWindow(tick'.current_time)
             THEN /\ tick'.outcome = "refresh"
                  /\ batches' = batches + 1
                  /\ batch'.pc = "loop"
             ELSE /\ tick'.outcome = "skipped"
                  /\ UNCHANGED refVars
       /\ batches' # batches =>
             /\ tick' # tick
             /\ InsideTradingWindow(tick'.current_time)
      ]_vars

\* A tick at 10:00 has run its batch over both users, and a tick at 20:00
\* has then been skipped.
C11_Witness ==
    /\ tick.outcome = "skipped"
    /\ tick.current_time = HM(20, 0)
    /\ batches = 1
    /\ batch.pc = "done"
    /\ Len(batch.outcomes) = 2

(***************************************************************************)
(* SpecStatus: get_refresh_status (portfolio_refresh_service.py:391-402)   *)
(* called at any moment of the coordinator's life, on an empty and on a    *)
(* populated database.                                                     *)
(***************************************************************************)
\* int(os.getenv('PORTFOLIO_REFRESH_INTERVAL', 300)), never assigned again.
refresh_interval == 300

\* _get_last_system_refresh: the metric's value; None (0) when there is no
\* metric or the read raised (line 410).
_get_last_system_refresh(read) ==
    IF read THEN last_system_refresh ELSE 0

\* len(self._get_all_users_with_portfolios()): one user per document; the
\* list is [] when the read raised (line 339).
TotalUsers(read) ==
    IF read THEN Cardinality(DOMAIN store) ELSE 0

\* A status that counts the users of a full database whatever is stored.
StaleStatus(metric_read, users_read) ==
    [is_running          |-> is_running,
     refresh_interval    |-> refresh_interval,
     last_system_refresh |-> _get_last_system_refresh(metric_read),
     total_users         |-> Len(Users),
     reads               |-> [metric |-> metric_read, users |-> users_read]]

\* The dict of lines 394-399; reads tells which of the two reads returned.
RefreshStatus(metric_read, users_read) ==
    [is_running          |-> is_running,
     refresh_interval    |-> refresh_interval,
     last_system_refresh |-> _get_last_system_refresh(metric_read),
     total_users         |-> TotalUsers(users_read),
     reads               |-> [metric |-> metric_read, users |-> users_read]]

get_refresh_status ==
    /\ \E metric_read, users_read \in BOOLEAN :
          status' = RefreshStatus(metric_read, users_read)
    /\ UNCHANGED <<tick, consVars, coordVars, refVars, portVars, svcVars>>

\* The service as constructed, with no document and no metric stored, or
\* with a document per user and the metric of an earlier refresh.
InitStatus ==
    /\ CoordIdle
    /\ ConsIdle
    /\ PortIdle
    /\ CallIdle
    /\ SvcIdle
    /\ \E populated \in BOOLEAN :
          /\ store = IF populated
                     THEN [u \in UserIds |->
                              StoredPortfolio(<<StoredHolding("S2", 2, 1, 1)>>,
                                              TRUE)]
                     ELSE <<>>
          /\ last_system_refresh = IF populated THEN 1 ELSE 0
    /\ batch = [pc |-> "idle"]
    /\ batches = 0
    /\ batchReturn = "none"
    /\ manual = [pc |-> "idle"]
    /\ manuals = 0
    /\ manualReturn = "none"
    /\ refresh_logs = <<>>

NextStatus ==
    \/ get_refresh_status
    \/ NextCoordinator

SpecStatus == InitStatus /\ [][NextStatus]_vars

(***************************************************************************)
(* Claims about get_refresh_status (checked under SpecStatus).             *)
(***************************************************************************)
\* C20: a get_refresh_status call changes nothing (running flag, schedule,
\* scheduler thread, Portfolio Store, logs and last_system_refresh are as
\* before it; the interval is never assigned) and reports the running flag
\* and the interval as they are, and last_system_refresh and the number of
\* users with a stored Portfolio as they are whenever its read of them
\* returned.
C20_StatusReadOnly ==
    [][status' # status =>
          /\ UNCHANGED <<coordVars, refVars, tick>>
          /\ status'.is_running = is_running
          /\ status'.refresh_interval = refresh_interval
          /\ status'.reads.metric
                 => status'.last_system_refresh = last_system_refresh
          /\ status'.reads.users
                 => status'.total_users = Cardinality(DOMAIN store)
      ]_vars

\* The status was taken while Running, on the populated database, and both
\* reads returned.
C20_Witness ==
    /\ "is_running" \in DOMAIN status
    /\ status.is_running
    /\ is_running
    /\ status.reads.metric /\ status.reads.users
    /\ status.total_users = Len(Users)
    /\ status.last_system_refresh = 1

(***************************************************************************)
(* SpecScreen: screen_stocks (screening_service.py:13-35) on a catalog of  *)
(* records. A record is kept by the values at its field paths; a path      *)
(* whose key, or whose parent key, is not in the record is Absent (both    *)
(* end the navigation of lines 274-278 and of line 306 the same way).      *)
(***************************************************************************)
Null == [kind |-> "none"]                     \* the key holds None

\* The value of the record at a dotted field path.
Lookup(item, field) ==
    IF field \in DOMAIN item THEN item[field] ELSE Absent

\* _check_field_condition, lines 281-289, for one operator: the operator
\* rejects the value. A comparison of None or of a string with a number
\* raises TypeError, which line 292 turns into False.
OperatorRejects(value, operator, threshold) ==
    CASE operator = "$gte" -> value.kind # "num" \/ value.v < threshold
      [] operator = "$lte" -> value.kind # "num" \/ value.v > threshold
      [] operator = "$in"  ->
             ~(value.kind = "str"
               /\ \E i \in DOMAIN threshold : threshold[i] = value.v)
      [] operator = "$nin" ->
             value.kind = "str"
             /\ \E i \in DOMAIN threshold : threshold[i] = value.v
      [] OTHER -> FALSE

\* A check that looks at the first operator of a condition only.
CheckFirstOperator(item, field, condition) ==
    /\ Lookup(item, field).kind # "absent"
    /\ \A operator \in DOMAIN condition \cap {"$gte", "$in"} :
          ~OperatorRejects(Lookup(item, field), operator, condition[operator])

\* _check_field_condition (lines 269-293).
_check_field_condition(item, field, condition) ==
    /\ Lookup(item, field).kind # "absent"
    /\ \A operator \in DOMAIN condition :
          ~OperatorRejects(Lookup(item, field), operator, condition[operator])

\* _apply_stock_filters (lines 249-257).
_apply_stock_filters(stock, query) ==
    \A field \in DOMAIN query :
        _check_field_condition(stock, field, query[field])

\* _execute_screening (lines 213-229) on the catalog.
_execute_screening(query) ==
    LET Passes(stock) == _apply_stock_filters(stock, query)
    IN  SelectSeq(catalog, Passes)

\* A filter key that is in the request.
Given(f, key) == f[key].kind # "absent"

\* A list filter that is in the request and not empty (lines 168, 172).
GivenList(f, key) == Given(f, key) /\ f[key].v # <<>>

\* Lines 122-128: the condition on fundamental_data.pe_ratio (the other
\* numeric ranges, lines 130-165, are built the same way).
RangeCondition(f, min_key, max_key) ==
    [operator \in {op \in {"$gte", "$lte"} :
                      \/ op = "$gte" /\ Given(f, min_key)
                      \/ op = "$lte" /\ Given(f, max_key)} |->
        IF operator = "$gte" THEN f[min_key].v ELSE f[max_key].v]

\* Lines 168-173: the condition on basic_info.sector; line 173 assigns the
\* whole condition, replacing the one of line 169.
SectorCondition(f) ==
    IF GivenList(f, "exclude_sectors")
    THEN [operator \in {"$nin"} |-> f.exclude_sectors.v]
    ELSE [operator \in {"$in"} |-> f.sectors.v]

\* _build_screening_query (lines 117-175).
_build_screening_query(f) ==
    LET fields ==
            {field \in {"fundamental_data.pe_ratio", "basic_info.sector"} :
                \/ /\ field = "fundamental_data.pe_ratio"
                   /\ Given(f, "pe_ratio_min") \/ Given(f, "pe_ratio_max")
                \/ /\ field = "basic_info.sector"
                   /\ GivenList(f, "sectors") \/ GivenList(f, "exclude_sectors")}
    IN  [field \in fields |->
            IF field = "fundamental_data.pe_ratio"
            THEN RangeCondition(f, "pe_ratio_min", "pe_ratio_max")
            ELSE SectorCondition(f)]

\* The order of str values under <.
StrRank(x) == IF x = "A" THEN 1 ELSE 2

\* a < b for two sort keys of one type.
KeyLess(a, b) ==
    IF a.kind = "num" THEN a.v < b.v ELSE StrRank(a.v) < StrRank(b.v)

\* get_sort_value (lines 301-309): the value at the path, 0 when the path
\* is not in the record or holds None.
get_sort_value(item, field) ==
    IF Lookup(item, field).kind \in {"absent", "none"}
    THEN Num(0)
    ELSE Lookup(item, field)

\* sorted() puts x into an ordered list behind the elements it does not
\* precede (the sort is stable, also with reverse=True).
SortedInsert(ordered, x, field, reverse) ==
    LET Before(y) ==
            IF reverse
            THEN ~KeyLess(get_sort_value(y, field), get_sort_value(x, field))
            ELSE ~KeyLess(get_sort_value(x, field), get_sort_value(y, field))
        k == Cardinality({i \in DOMAIN ordered :
                             \A j \in 1..i : Before(ordered[j])})
    IN  SubSeq(ordered, 1, k) \o <<x>> \o SubSeq(ordered, k + 1, Len(ordered))

RECURSIVE SortedFrom(_, _, _, _)
SortedFrom(ordered, rest, field, reverse) ==
    IF rest = <<>> THEN ordered
    ELSE SortedFrom(SortedInsert(ordered, Head(rest), field, reverse),
                    Tail(rest), field, reverse)

\* sorted() raises TypeError: two keys of different types are compared.
SortRaises(items, field) ==
    \E i, j \in DOMAIN items :
        get_sort_value(items[i], field).kind
            # get_sort_value(items[j], field).kind

\* _sort_results (lines 295-314; _sort_mf_results, lines 316-335, is the
\* same code). sort_by is the string split at line 298-299: the '-' flag
\* and the field path.
_sort_results(items, sort_by) ==
    IF SortRaises(items, sort_by.field) THEN items
    ELSE SortedFrom(<<>>, items, sort_by.field, sort_by.reverse)

\* A list index of a slice, as Python clamps it.
SliceIndex(i, n) ==
    IF i < 0 THEN (IF i + n < 0 THEN 0 ELSE i + n)
    ELSE IF i > n THEN n ELSE i

\* items[start:end]
PySlice(items, start, end) ==
    SubSeq(items, SliceIndex(start, Len(items)) + 1,
           SliceIndex(end, Len(items)))

\* _paginate_results (lines 337-349).
_paginate_results(items, f) ==
    LET page        == IF Given(f, "page") THEN f.page.v ELSE 1
        limit       == IF Given(f, "limit") THEN f.limit.v ELSE 20
        start_index == (page - 1) * limit
        end_index   == start_index + limit
    IN  PySlice(items, start_index, end_index)

\* filters.get('sort_by', 'market_cap')
SortBy(f) ==
    IF Given(f, "sort_by") THEN f.sort_by.v
    ELSE [reverse |-> FALSE, field |-> "market_cap"]

\* A catalog record: the values at its field paths.
Record(symbol, market_cap, pe_ratio, sector) ==
    "symbol" :> symbol
    @@ "basic_info.market_cap" :> market_cap
    @@ "fundamental_data.pe_ratio" :> pe_ratio
    @@ "basic_info.sector" :> sector

\* Records that differ in what the filters read.
FilteredRecords ==
    {Record(Str("A"), Num(1), pe_ratio, sector) :
        pe_ratio \in {Absent, Null, Num(10), Num(20), Num(30)},
        sector \in {Absent, Str("IT"), Str("Oil"), Str("Bank")}}

\* Records that differ in what the sort reads.
SortedRecords ==
    {Record(symbol, Num(1), Num(20), Str("IT")) :
        symbol \in {Absent, Str("A"), Str("B")}}
    \cup {Record(Str("A"), market_cap, Num(20), Str("IT")) :
              market_cap \in {Absent, Null, Num(0 - 1), Num(1)}}

\* A list value of the request.
List(x) == [kind |-> "list", v |-> x]

\* The values of 'sort_by' in a request.
SortKeys ==
    {Absent}
    \cup {Str([reverse |-> r, field |-> f]) :
             r \in BOOLEAN, f \in {"basic_info.market_cap", "symbol"}}

\* The values of 'page' and of 'limit' in a request.
Pages  == {Absent, Num(0 - 1), Num(0), Num(1), Num(2), Num(99)}
Limits == {Absent, Num(1), Num(2)}

\* The request dict.
Request(pe_ratio_min, pe_ratio_max, sectors, exclude_sectors, sort_by, page, limit) ==
    [pe_ratio_min    |-> pe_ratio_min,
     pe_ratio_max    |-> pe_ratio_max,
     sectors         |-> sectors,
     exclude_sectors |-> exclude_sectors,
     sort_by         |-> sort_by,
     page            |-> page,
     limit           |-> limit]

\* A catalog and a request with criteria, or a catalog and a request that
\* sorts and pages it.
InitScreen ==
    /\ \/ \E n \in 0..MaxCatalog :
             \E c \in [1..n -> FilteredRecords],
                pe_ratio_min, pe_ratio_max \in {Absent, Num(20)},
                sectors \in {Absent, List(<<>>), List(<<"IT">>)},
                exclude_sectors \in {Absent, List(<<>>), List(<<"Oil">>)} :
                /\ catalog = c
                /\ filters = Request(pe_ratio_min, pe_ratio_max, sectors,
                                     exclude_sectors, Absent, Absent, Absent)
       \/ \E n \in 0..MaxSorted :
             \E c \in [1..n -> SortedRecords], sort_by \in SortKeys,
                page \in Pages, limit \in Limits :
                /\ catalog = c
                /\ filters = Request(Absent, Absent, Absent, Absent, sort_by,
                                     page, limit)
    /\ screening = [pc |-> "idle"]
    /\ ConsIdle
    /\ CoordIdle
    /\ RefreshIdle
    /\ PortIdle
    /\ CallIdle
    /\ PriceIdle
    /\ starters = <<>>

\* screen_stocks (lines 13-35).
screen_stocks ==
    /\ screening.pc = "idle"
    /\ LET query             == _build_screening_query(filters)
           filtered_stocks   == _execute_screening(query)
           sorted_results    == _sort_results(filtered_stocks, SortBy(filters))
           paginated_results == _paginate_results(sorted_results, filters)
       IN  screening' =
               [pc             |-> "done",
                query          |-> query,
                results        |-> filtered_stocks,
                sorted_results |-> sorted_results,
                response       |-> [results        |-> paginated_results,
                                    total_count    |-> Len(filtered_stocks),
                                    filtered_count |-> Len(paginated_results)]]
    /\ UNCHANGED <<catalog, filters, consVars, coordVars, refVars, portVars,
                   callVars, priceVars, raceVars>>

NextScreen == screen_stocks

SpecScreen == InitScreen /\ [][NextScreen]_vars

(***************************************************************************)
(* Claims about screening (checked under SpecScreen).                      *)
(***************************************************************************)
\* The value satisfies an operator of a query: at least, at most, one of,
\* none of.
Satisfies(value, operator, threshold) ==
    CASE operator = "$gte" -> value.kind = "num" /\ value.v >= threshold
      [] operator = "$lte" -> value.kind = "num" /\ value.v <= threshold
      [] operator = "$in"  ->
             value.kind = "str"
             /\ value.v \in {threshold[i] : i \in DOMAIN threshold}
      [] operator = "$nin" ->
             ~(value.kind = "str"
               /\ value.v \in {threshold[i] : i \in DOMAIN threshold})

\* The record has every field path of the query, with a value that
\* satisfies every operator given for the path.
Matches(record, query) ==
    \A field \in DOMAIN query :
        /\ field \in DOMAIN record
        /\ record[field] # Absent
        /\ \A operator \in DOMAIN query[field] :
              Satisfies(record[field], operator, query[field][operator])

\* C21: the records the evaluator returns are, in catalog order, exactly
\* the records that match the query: a record without a filtered path is
\* left out, and with an empty query every record is returned.
C21_AndSemantics ==
    screening.pc = "done" =>
        /\ LET Matching(record) == Matches(record, screening.query)
           IN  screening.results = SelectSeq(catalog, Matching)
        /\ DOMAIN screening.query = {} => screening.results = catalog

\* A range on pe_ratio and a sector list were evaluated on two records; the
\* one without pe_ratio was left out and the other was returned.
C21_Witness ==
    /\ screening.pc = "done"
    /\ DOMAIN screening.query
           = {"fundamental_data.pe_ratio", "basic_info.sector"}
    /\ DOMAIN screening.query["fundamental_data.pe_ratio"] = {"$gte", "$lte"}
    /\ Len(catalog) = 2
    /\ Len(screening.results) = 1
    /\ \E i \in DOMAIN catalog :
          catalog[i]["fundamental_data.pe_ratio"] = Absent

\* The elements of a list.
Elements(list) == {list[i] : i \in DOMAIN list}

\* C22: when the request gives both a minimum and a maximum pe_ratio the
\* query holds both bounds, when it gives both an include list and an
\* exclude list of sectors the query holds both lists, and every returned
\* record satisfies every criterion of the request.
C22_CriteriaKept ==
    screening.pc = "done" =>
        LET query == screening.query
            pe    == "fundamental_data.pe_ratio"
            sec   == "basic_info.sector"
        IN  /\ (Given(filters, "pe_ratio_min") /\ Given(filters, "pe_ratio_max"))
                   => /\ pe \in DOMAIN query
                      /\ DOMAIN query[pe] = {"$gte", "$lte"}
                      /\ query[pe]["$gte"] = filters.pe_ratio_min.v
                      /\ query[pe]["$lte"] = filters.pe_ratio_max.v
            /\ (GivenList(filters, "sectors")
                /\ GivenList(filters, "exclude_sectors"))
                   => /\ sec \in DOMAIN query
                      /\ DOMAIN query[sec] = {"$in", "$nin"}
                      /\ query[sec]["$in"] = filters.sectors.v
                      /\ query[sec]["$nin"] = filters.exclude_sectors.v
            /\ \A i \in DOMAIN screening.results :
                  LET record == screening.results[i]
                  IN  /\ Given(filters, "pe_ratio_min")
                             => /\ record[pe].kind = "num"
                                /\ record[pe].v >= filters.pe_ratio_min.v
                      /\ Given(filters, "pe_ratio_max")
                             => /\ record[pe].kind = "num"
                                /\ record[pe].v <= filters.pe_ratio_max.v
                      /\ GivenList(filters, "sectors")
                             => /\ record[sec].kind = "str"
                                /\ record[sec].v
                                       \in Elements(filters.sectors.v)
                      /\ GivenList(filters, "exclude_sectors")
                             => ~(/\ record[sec].kind = "str"
                                  /\ record[sec].v
                                         \in Elements(filters.exclude_sectors.v))

\* The smaller of two numbers.
Min(a, b) == IF a < b THEN a ELSE b

\* C23: the page returned for the 1-based page number p and the page size
\* s is the window [(p-1)*s, p*s) of the sorted filtered list, clamped to
\* its length, and it is empty for a page past the end and for a page
\* number below 1.
C23_PageWindow ==
    screening.pc = "done" =>
        LET p      == IF Given(filters, "page") THEN filters.page.v ELSE 1
            size   == IF Given(filters, "limit") THEN filters.limit.v ELSE 20
            sorted == screening.sorted_results
            n      == Len(sorted)
        IN  screening.response.results =
                IF p < 1 THEN <<>>
                ELSE SubSeq(sorted, Min((p - 1) * size, n) + 1,
                            Min(p * size, n))

\* The value a record is ordered by: the value at the path, 0 for a record
\* that lacks the path or holds None there.
OrderedBy(record, field) ==
    IF field \in DOMAIN record /\ record[field].kind \in {"num", "str"}
    THEN record[field]
    ELSE Num(0)

\* a comes strictly before b in ascending order (numbers by size, strings
\* alphabetically).
Precedes(a, b) ==
    /\ a.kind = b.kind
    /\ IF a.kind = "num" THEN a.v < b.v
       ELSE a.v = "A" /\ b.v = "B"

\* C24: the sorted list is a permutation of the filtered list, and no record
\* stands behind a record whose value at the sort path it precedes
\* (ascending), respectively follows (with the '-' flag).
C24_SortedPermutation ==
    screening.pc = "done" =>
        LET before == screening.results
            after  == screening.sorted_results
            field  == SortBy(filters).field
        IN  /\ \E f \in Permutations(DOMAIN before) :
                  after = [i \in DOMAIN before |-> before[f[i]]]
            /\ \A i, j \in DOMAIN after :
                  i < j =>
                      IF SortBy(filters).reverse
                      THEN ~Precedes(OrderedBy(after[i], field),
                                     OrderedBy(after[j], field))
                      ELSE ~Precedes(OrderedBy(after[j], field),
                                     OrderedBy(after[i], field))

(***************************************************************************)
(* SpecPrice: one _get_current_price call (portfolio_refresh_service.py    *)
(* 245-268), a step per source consulted. What a source answers is a       *)
(* price, nothing (None, 0, a record without 'current_price'), or an       *)
(* exception.                                                              *)
(***************************************************************************)
Raised == [kind |-> "raised"]

\* The sources in the order of lines 248-262.
Chain == <<"live", "cached", "fresh">>

\* What a source can answer.
Answers == {Raised, Num(NoPrice)} \cup {Num(price) : price \in FeedPrices}

InitPrice ==
    /\ \E access_token \in BOOLEAN, answers \in [{"live", "cached", "fresh"} -> Answers] :
          providers = [access_token |-> access_token, answers |-> answers]
    /\ lookup = [pc |-> "idle"]
    /\ ConsIdle
    /\ CoordIdle
    /\ RefreshIdle
    /\ PortIdle
    /\ CallIdle
    /\ ScreenIdle
    /\ starters = <<>>

\* The call begins, for the symbol of a holding.
LookupBegin ==
    /\ lookup.pc = "idle"
    /\ \E symbol \in {"S1", "S2"} :
          lookup' = [pc |-> "live", symbol |-> symbol, consulted |-> <<>>,
                     result |-> Num(NoPrice)]
    /\ UNCHANGED <<providers, consVars, coordVars, refVars, portVars,
                   callVars, screenVars, raceVars>>

\* A consultation that goes on to the next source whatever it was answered.
ConsultAll(source, next) ==
    LET answer == providers.answers[source]
        asked  == [lookup EXCEPT !.consulted = Append(@, source)]
    IN  IF answer = Raised
        THEN [asked EXCEPT !.pc = "done", !.result = Num(NoPrice)]
        ELSE IF answer.v # NoPrice
             THEN [asked EXCEPT !.pc = next, !.result = answer]
             ELSE [asked EXCEPT !.pc = next]

\* The frame after the source has been consulted at position pc: return its
\* price (lines 252, 257, 262), return None from the handler of line 266
\* when it raised, or go on to the next position.
Consult(source, next) ==
    LET answer == providers.answers[source]
        asked  == [lookup EXCEPT !.consulted = Append(@, source)]
    IN  IF answer = Raised
        THEN [asked EXCEPT !.pc = "done", !.result = Num(NoPrice)]
        ELSE IF answer.v # NoPrice
             THEN [asked EXCEPT !.pc = "done", !.result = answer]
             ELSE [asked EXCEPT !.pc = next]

\* Lines 249-252: FYERS, when there is a session.
TryFyers ==
    /\ lookup.pc = "live"
    /\ lookup' = IF providers.access_token
                 THEN Consult("live", "cached")
                 ELSE [lookup EXCEPT !.pc = "cached"]
    /\ UNCHANGED <<providers, consVars, coordVars, refVars, portVars,
                   callVars, screenVars, raceVars>>

\* Lines 255-257: get_cached_fundamentals.
TryCached ==
    /\ lookup.pc = "cached"
    /\ lookup' = Consult("cached", "fresh")
    /\ UNCHANGED <<providers, consVars, coordVars, refVars, portVars,
                   callVars, screenVars, raceVars>>

\* Lines 260-264: get_stock_fundamentals, and return None after it.
TryFresh ==
    /\ lookup.pc = "fresh"
    /\ lookup' = Consult("fresh", "done")
    /\ UNCHANGED <<providers, consVars, coordVars, refVars, portVars,
                   callVars, screenVars, raceVars>>

NextPrice ==
    \/ LookupBegin
    \/ TryFyers
    \/ TryCached
    \/ TryFresh

SpecPrice == InitPrice /\ [][NextPrice]_vars

(***************************************************************************)
(* Claims about the price lookup (checked under SpecPrice).                *)
(***************************************************************************)
\* The position of a source in the fallback chain live, cached, fresh.
Rank(source) ==
    CASE source = "live" -> 1 [] source = "cached" -> 2 [] source = "fresh" -> 3

\* What a source yields to the lookup: a live feed without a session
\* yields nothing.
Yields(source) ==
    IF source = "live" /\ ~providers.access_token THEN Num(NoPrice)
    ELSE providers.answers[source]

YieldsNone(source) == Yields(source) = Num(NoPrice)

\* C26: the sources are consulted in the order live, cached, fresh, a
\* source only after every earlier one yielded no price, and none after a
\* source has yielded a price; the lookup returns the price of the source
\* it stopped at, and none when every source failed or one raised.
C26_FallbackChain ==
    lookup.pc # "idle" =>
        /\ \A i, j \in DOMAIN lookup.consulted :
              i < j => Rank(lookup.consulted[i]) < Rank(lookup.consulted[j])
        /\ \A i \in DOMAIN lookup.consulted :
              \A source \in {"live", "cached", "fresh"} :
                  Rank(source) < Rank(lookup.consulted[i])
                      => YieldsNone(source)
        /\ lookup.pc = "done" =>
              /\ lookup.result.kind = "num"
              /\ IF \E source \in {"live", "cached", "fresh"} :
                       /\ Yields(source) \notin {Raised, Num(NoPrice)}
                       /\ \A e \in {"live", "cached", "fresh"} :
                             Rank(e) < Rank(source) => YieldsNone(e)
                 THEN /\ lookup.result # Num(NoPrice)
                      /\ lookup.result
                             = Yields(lookup.consulted[Len(lookup.consulted)])
                 ELSE lookup.result = Num(NoPrice)

\* The live feed and the cache yielded nothing and the price came from the
\* fresh fetch.
C26_Witness ==
    /\ lookup.pc = "done"
    /\ lookup.consulted = Chain
    /\ lookup.result # Num(NoPrice)

====
